---- MODULE Spec2Model ----
(***************************************************************************)
(* PPE monitoring service (src/app.py): the compliance analyzer, the       *)
(* background event generator, the alert resolve handler and the two       *)
(* aggregating read handlers, over the SQLite store they share.            *)
(*                                                                         *)
(* Store: the committed contents of the tables ppe_detections and alerts   *)
(* (the workers table is filled once by init_db and never written again).  *)
(* Every handler and the generator open their own connection.  A           *)
(* connection's INSERT/UPDATE opens an implicit transaction and takes the  *)
(* database write lock; its rows become visible to the other connections   *)
(* at conn.commit().  A SELECT runs outside any transaction and reads the  *)
(* committed contents at the moment it executes.                           *)
(*                                                                         *)
(* Numbers with one decimal (scores, rates) are kept in tenths: 76.7 is    *)
(* 767.  Columns no modelled statement reads (confidence, camera_location, *)
(* description, the workers' names) are left out of the rows.              *)
(***************************************************************************)
EXTENDS Integers, Sequences, FiniteSets

\* Bounds of the exploration.
MaxEvents == 2      \* generator cycles explored
MaxDraw == 7        \* the generator draws outcome 0..MaxDraw of DrawDetection
MaxDay == 1         \* midnights explored

\* init_db: the workers table holds ids 1..5; random.randint(1, 5).
NumWorkers == 5

VARIABLES
    now,          \* the wall clock: [date, time]
    writer,       \* the connection holding the database write lock
    detections,   \* committed rows of ppe_detections, in rowid order
    alerts,       \* committed rows of alerts, in rowid order
    gen,          \* the generator thread: position, drawn detection, open transaction
    req,          \* the resolve_alert requests
    dash,         \* the dashboard_stats request
    dashSnaps,    \* history: the committed store states since dash was called
    trend,        \* the compliance_trends request
    ana           \* a call of analyze_ppe_compliance

vars == <<now, writer, detections, alerts, gen, req, dash, dashSnaps, trend, ana>>

Resolvers == {"r1", "r2"}

----------------------------------------------------------------------------
(* Arithmetic *)

\* round(n / d) to the nearest integer, ties to even (Python's round).
RoundHalfEven(n, d) ==
    LET q == n \div d
        r == n % d
    IN  IF 2 * r > d \/ (2 * r = d /\ q % 2 = 1) THEN q + 1 ELSE q

\* round(num / den * 100, 1), in tenths.
PctTenths(num, den) == RoundHalfEven(1000 * num, den)

SeqToSet(s) == {s[i] : i \in DOMAIN s}

Rows(tbl) == SeqToSet(tbl)

----------------------------------------------------------------------------
(* The compliance analyzer *)

required_ppe == <<"helmet", "vest", "gloves">>
optional_ppe == <<"goggles", "boots", "mask">>

\* detection_data.get(ppe, 0)
Get(d, k, default) == IF k \in DOMAIN d THEN d[k] ELSE default

\* for ppe in names: if not detection_data.get(ppe, 0): missing.append(ppe)
Missing(d, names) ==
    LET absent(p) == Get(d, p, 0) = 0 IN SelectSeq(names, absent)

\* round(required_score + optional_score, 1), in tenths
ScoreWeights6040(nreq, nopt) ==
    RoundHalfEven((3 - nreq) * 600 + (3 - nopt) * 400, 3)

ComplianceScore(nreq, nopt) ==
    RoundHalfEven((Len(required_ppe) - nreq) * 700 * Len(optional_ppe)
                  + (Len(optional_ppe) - nopt) * 300 * Len(required_ppe),
                  Len(required_ppe) * Len(optional_ppe))

StatusIgnoringRequired(required_missing, score) ==
    IF score < 800 THEN "Partially Compliant" ELSE "Compliant"

Status(required_missing, score) ==
    IF required_missing # << >> THEN "Non-Compliant"
    ELSE IF score < 800 THEN "Partially Compliant"
    ELSE "Compliant"

analyze_ppe_compliance(d) ==
    LET rm == Missing(d, required_ppe)
        om == Missing(d, optional_ppe)
        score == ComplianceScore(Len(rm), Len(om))
    IN  [required_missing |-> rm,
         optional_missing |-> om,
         compliance_score |-> score,
         status |-> Status(rm, score)]

----------------------------------------------------------------------------
(* Rows and queries *)

Date(ts) == ts.date

\* helmet = 1 AND vest = 1 AND gloves = 1
FullyCompliant(row) == row.helmet = 1 /\ row.vest = 1 /\ row.gloves = 1

\* WHERE DATE(timestamp) = ?
OnDate(tbl, date) == {row \in Rows(tbl) : Date(row.timestamp) = date}

\* SELECT COUNT(*) FROM alerts WHERE resolved = 0
ActiveAlerts(tbl) == Cardinality({a \in Rows(tbl) : a.resolved = 0})

\* SELECT COUNT(*) FROM ppe_detections WHERE helmet = 1 AND vest = 1 AND gloves = 1
CompliantDetections(tbl) == Cardinality({row \in Rows(tbl) : FullyCompliant(row)})

\* UPDATE alerts SET resolved = 1 WHERE id = ?
SetResolvedToggle(tbl, id) ==
    [i \in DOMAIN tbl |->
        IF tbl[i].id = id THEN [tbl[i] EXCEPT !.resolved = 1 - tbl[i].resolved]
        ELSE tbl[i]]

SetResolved(tbl, id) ==
    [i \in DOMAIN tbl |->
        IF tbl[i].id = id THEN [tbl[i] EXCEPT !.resolved = 1] ELSE tbl[i]]

\* the statement's affected-row count
RowCount(tbl, id) == Cardinality({a \in Rows(tbl) : a.id = id})

----------------------------------------------------------------------------
(* Initial state: empty tables, every thread at its start *)

NoDetection ==
    [worker_id |-> 0, timestamp |-> [date |-> 0, time |-> 0],
     helmet |-> 0, vest |-> 0, gloves |-> 0,
     goggles |-> 0, boots |-> 0, mask |-> 0]

NoTx == [detections |-> << >>, alerts |-> << >>]

NoResponse == [success |-> FALSE]

NoStats ==
    [total_workers |-> 0, today_detections |-> 0, active_alerts |-> 0,
     overall_compliance |-> 0,
     avg_ppe_usage |-> [p \in SeqToSet(required_ppe) \cup SeqToSet(optional_ppe) |-> 0]]

NoVerdict ==
    [required_missing |-> << >>, optional_missing |-> << >>,
     compliance_score |-> 0, status |-> ""]

Init ==
    /\ now = [date |-> 0, time |-> 0]
    /\ writer = "none"
    /\ detections = << >>
    /\ alerts = << >>
    /\ gen = [pc |-> "draw", detection |-> NoDetection, tx |-> NoTx]
    /\ req = [r \in Resolvers |->
                [pc |-> "idle", alert_id |-> 0, rowcount |-> 0, response |-> NoResponse]]
    /\ dash = [pc |-> "idle", total_workers |-> 0, today |-> 0, matched |-> {},
               active_alerts |-> 0, response |-> NoStats]
    /\ dashSnaps = {}
    /\ trend = [pc |-> "idle", i |-> 6, call_date |-> 0, trends |-> << >>]
    /\ ana = [pc |-> "idle", input |-> [p \in {} |-> 0], out |-> NoVerdict]

\* The committed store, as one value.
Store(d, a) == [detections |-> d, alerts |-> a]

\* A commit is recorded while a dashboard_stats call is in progress.
Observe(d, a) ==
    dashSnaps' = IF dash.pc \in {"idle", "done"} THEN dashSnaps
                 ELSE dashSnaps \cup {Store(d, a)}

----------------------------------------------------------------------------
(* The clock *)

Midnight ==
    /\ now.date < MaxDay
    /\ now' = [now EXCEPT !.date = @ + 1]
    /\ UNCHANGED <<writer, detections, alerts, gen, req, dash, dashSnaps, trend, ana>>

----------------------------------------------------------------------------
(* The background generator, one cycle of its loop *)

Bit(n, i) == (n \div (2 ^ i)) % 2

\* Outcome k of the generator's random draws, in a fixed enumeration of the
\* 5 * 64 outcomes: the worker and the six flags, stamped with the clock.
DrawDetection(k, ts) ==
    LET f == (k * 37) % 64
    IN  [worker_id |-> (k % NumWorkers) + 1,
         timestamp |-> ts,
         helmet |-> Bit(f, 0), vest |-> Bit(f, 1), gloves |-> Bit(f, 2),
         goggles |-> Bit(f, 3), boots |-> Bit(f, 4), mask |-> Bit(f, 5)]

\* INSERT INTO ppe_detections: the row gets the next rowid
DetectionRow(d, tbl) ==
    [id |-> Len(tbl) + 1, worker_id |-> d.worker_id, timestamp |-> d.timestamp,
     helmet |-> d.helmet, vest |-> d.vest, gloves |-> d.gloves,
     goggles |-> d.goggles, boots |-> d.boots, mask |-> d.mask]

\* if not detection['helmet'] or not detection['vest'] or not detection['gloves']
NeedsAlertHelmetOnly(d) == d.helmet = 0

NeedsAlert(d) == d.helmet = 0 \/ d.vest = 0 \/ d.gloves = 0

ViolationType(d) ==
    (IF d.helmet = 0 THEN <<"No Helmet">> ELSE << >>)
    \o (IF d.vest = 0 THEN <<"No Safety Vest">> ELSE << >>)
    \o (IF d.gloves = 0 THEN <<"No Gloves">> ELSE << >>)

\* severity = 'High' if not detection['helmet'] else 'Medium'
Severity(d) == IF d.helmet = 0 THEN "High" ELSE "Medium"

\* INSERT INTO alerts: the next rowid, resolved by its column default 0
AlertRow(d, tbl) ==
    [id |-> Len(tbl) + 1, worker_id |-> d.worker_id, timestamp |-> d.timestamp,
     violation_type |-> ViolationType(d), severity |-> Severity(d),
     resolved |-> 0]

\* connect; draw the detection; timestamp = datetime.now()
GenDraw ==
    /\ gen.pc = "draw"
    /\ Len(detections) < MaxEvents
    /\ \E k \in 0..MaxDraw :
         gen' = [gen EXCEPT !.pc = "insert_event",
                            !.detection = DrawDetection(k, now)]
    /\ UNCHANGED <<now, writer, detections, alerts, req, dash, dashSnaps, trend, ana>>

\* c.execute(INSERT INTO ppe_detections): opens the transaction, takes the write lock
GenInsertEventAutocommit ==
    /\ gen.pc = "insert_event"
    /\ writer = "none"
    /\ writer' = "gen"
    /\ detections' = Append(detections, DetectionRow(gen.detection, detections))
    /\ gen' = [gen EXCEPT !.pc = "check"]
    /\ Observe(detections', alerts)
    /\ UNCHANGED <<now, alerts, req, dash, trend, ana>>

GenInsertEvent ==
    /\ gen.pc = "insert_event"
    /\ writer = "none"
    /\ writer' = "gen"
    /\ gen' = [gen EXCEPT !.pc = "check",
                          !.tx.detections = <<DetectionRow(gen.detection, detections)>>]
    /\ UNCHANGED <<now, detections, alerts, req, dash, dashSnaps, trend, ana>>

\* the violation check and, on a violation, c.execute(INSERT INTO alerts)
GenCheckViolation ==
    /\ gen.pc = "check"
    /\ gen' = [gen EXCEPT !.pc = "commit",
                          !.tx.alerts = IF NeedsAlert(gen.detection)
                                        THEN <<AlertRow(gen.detection, alerts)>>
                                        ELSE << >>]
    /\ UNCHANGED <<now, writer, detections, alerts, req, dash, dashSnaps, trend, ana>>

\* conn.commit(); conn.close()
GenCommit ==
    /\ gen.pc = "commit"
    /\ detections' = detections \o gen.tx.detections
    /\ alerts' = alerts \o gen.tx.alerts
    /\ writer' = "none"
    /\ gen' = [gen EXCEPT !.pc = "sleep", !.tx = NoTx]
    /\ Observe(detections', alerts')
    /\ UNCHANGED <<now, req, dash, trend, ana>>

\* time.sleep(10): the next cycle reads a later clock
GenSleep ==
    /\ gen.pc = "sleep"
    /\ now' = [now EXCEPT !.time = @ + 1]
    /\ gen' = [gen EXCEPT !.pc = "draw", !.detection = NoDetection]
    /\ UNCHANGED <<writer, detections, alerts, req, dash, dashSnaps, trend, ana>>

\* An sqlite3 call of the cycle raises (store unavailable, database is locked):
\* nothing in generate_sample_data catches it, the thread ends, and the
\* connection is dropped with its transaction uncommitted.
GenFail ==
    /\ \/ gen.pc \in {"insert_event", "commit"}
       \/ gen.pc = "check" /\ NeedsAlert(gen.detection)
    /\ gen' = [gen EXCEPT !.pc = "terminated", !.tx = NoTx]
    /\ writer' = IF writer = "gen" THEN "none" ELSE writer
    /\ UNCHANGED <<now, detections, alerts, req, dash, dashSnaps, trend, ana>>

Generator == GenDraw \/ GenInsertEvent \/ GenCheckViolation \/ GenCommit \/ GenSleep

----------------------------------------------------------------------------
(* resolve_alert *)

\* POST /api/resolve_alert/<alert_id>: connect
ResolveCall(r) ==
    /\ req[r].pc = "idle"
    /\ \E id \in 1..(Len(alerts) + 1) :
         req' = [req EXCEPT ![r].pc = "update", ![r].alert_id = id]
    /\ UNCHANGED <<now, writer, detections, alerts, gen, dash, dashSnaps, trend, ana>>

\* c.execute(UPDATE alerts SET resolved = 1 WHERE id = ?): takes the write lock
ResolveUpdate(r) ==
    /\ req[r].pc = "update"
    /\ writer = "none"
    /\ writer' = r
    /\ req' = [req EXCEPT ![r].pc = "commit",
                          ![r].rowcount = RowCount(alerts, req[r].alert_id)]
    /\ UNCHANGED <<now, detections, alerts, gen, dash, dashSnaps, trend, ana>>

\* conn.commit(); conn.close(); return jsonify({'success': True})
ResolveCommit(r) ==
    /\ req[r].pc = "commit"
    /\ alerts' = SetResolved(alerts, req[r].alert_id)
    /\ writer' = "none"
    /\ req' = [req EXCEPT ![r].pc = "done", ![r].response = [success |-> TRUE]]
    /\ Observe(detections, alerts')
    /\ UNCHANGED <<now, detections, gen, dash, trend, ana>>

Resolve(r) == ResolveCall(r) \/ ResolveUpdate(r) \/ ResolveCommit(r)

----------------------------------------------------------------------------
(* dashboard_stats *)

PPE == SeqToSet(required_ppe) \cup SeqToSet(optional_ppe)

\* round((AVG(flag) or 0) * 100, 1) over the matched rows
AvgUsage(matched, p) ==
    IF matched = {} THEN 0
    ELSE PctTenths(Cardinality({row \in matched : row[p] = 1}), Cardinality(matched))

\* overall_compliance and the response object
DashResponse(total_workers, matched, active_alerts, compliant_detections) ==
    LET today_detections == Cardinality(matched)
    IN  [total_workers |-> total_workers,
         today_detections |-> today_detections,
         active_alerts |-> active_alerts,
         overall_compliance |->
             IF today_detections > 0
             THEN PctTenths(compliant_detections, today_detections)
             ELSE 0,
         avg_ppe_usage |-> [p \in PPE |-> AvgUsage(matched, p)]]

\* connect; SELECT COUNT(*) FROM workers; today = datetime.now().date()
DashConnect ==
    /\ dash.pc = "idle"
    /\ dash' = [dash EXCEPT !.pc = "q_today",
                            !.total_workers = NumWorkers,
                            !.today = Date(now)]
    /\ dashSnaps' = {Store(detections, alerts)}
    /\ UNCHANGED <<now, writer, detections, alerts, gen, req, trend, ana>>

\* SELECT COUNT(*), AVG(helmet), ... WHERE DATE(timestamp) = today
DashQueryToday ==
    /\ dash.pc = "q_today"
    /\ dash' = [dash EXCEPT !.pc = "q_alerts",
                            !.matched = OnDate(detections, dash.today)]
    /\ UNCHANGED <<now, writer, detections, alerts, gen, req, dashSnaps, trend, ana>>

\* SELECT COUNT(*) FROM alerts WHERE resolved = 0
DashQueryAlerts ==
    /\ dash.pc = "q_alerts"
    /\ dash' = [dash EXCEPT !.pc = "q_compliant",
                            !.active_alerts = ActiveAlerts(alerts)]
    /\ UNCHANGED <<now, writer, detections, alerts, gen, req, dashSnaps, trend, ana>>

\* SELECT COUNT(*) ... WHERE helmet = 1 AND vest = 1 AND gloves = 1; close; respond
DashQueryCompliant ==
    /\ dash.pc = "q_compliant"
    /\ dash' = [dash EXCEPT !.pc = "done",
                            !.response = DashResponse(dash.total_workers, dash.matched,
                                                      dash.active_alerts,
                                                      CompliantDetections(detections))]
    /\ UNCHANGED <<now, writer, detections, alerts, gen, req, dashSnaps, trend, ana>>

Dashboard == DashConnect \/ DashQueryToday \/ DashQueryAlerts \/ DashQueryCompliant

----------------------------------------------------------------------------
(* compliance_trends *)

\* one entry of the trend list, for the rows DATE(timestamp) = date matched
TrendEntry(date, matched) ==
    LET total == Cardinality(matched)
    IN  [date |-> date,
         compliance_rate |->
             IF total > 0
             THEN PctTenths(Cardinality({row \in matched : FullyCompliant(row)}), total)
             ELSE 0,
         total_detections |-> total]

\* GET /api/compliance_trends: connect; trends = []
TrendCall ==
    /\ trend.pc = "idle"
    /\ trend' = [trend EXCEPT !.pc = "loop", !.i = 6, !.call_date = Date(now)]
    /\ UNCHANGED <<now, writer, detections, alerts, gen, req, dash, dashSnaps, ana>>

\* one iteration of for i in range(6, -1, -1); after the last: close; respond
TrendIter ==
    /\ trend.pc = "loop"
    /\ LET date == Date(now) - trend.i
       IN  trend' = [trend EXCEPT
                        !.trends = Append(@, TrendEntry(date, OnDate(detections, date))),
                        !.i = @ - 1,
                        !.pc = IF trend.i = 0 THEN "done" ELSE "loop"]
    /\ UNCHANGED <<now, writer, detections, alerts, gen, req, dash, dashSnaps, ana>>

Trends == TrendCall \/ TrendIter

----------------------------------------------------------------------------
(* A call of the analyzer on an arbitrary mapping *)

\* every mapping from some of the six PPE names to 0 or 1
Inputs == UNION {[S -> {0, 1}] : S \in SUBSET PPE}

AnalyzeCall ==
    /\ ana.pc \in {"idle", "done"}
    /\ \E d \in Inputs : ana' = [pc |-> "called", input |-> d, out |-> NoVerdict]
    /\ UNCHANGED <<now, writer, detections, alerts, gen, req, dash, dashSnaps, trend>>

AnalyzeReturn ==
    /\ ana.pc = "called"
    /\ ana' = [ana EXCEPT !.pc = "done", !.out = analyze_ppe_compliance(ana.input)]
    /\ UNCHANGED <<now, writer, detections, alerts, gen, req, dash, dashSnaps, trend>>

----------------------------------------------------------------------------
(* Specifications *)

Next == Generator \/ (\E r \in Resolvers : Resolve(r))

Spec == Init /\ [][Next]_vars

NextFault == Generator \/ GenFail \/ Resolve("r1")

SpecFault == Init /\ [][NextFault]_vars

NextDash == Midnight \/ Generator \/ Resolve("r1") \/ Dashboard

SpecDash == Init /\ [][NextDash]_vars

NextTrends == Midnight \/ Generator \/ Trends

SpecTrends == Init /\ [][NextTrends]_vars

NextAnalyze == AnalyzeCall \/ AnalyzeReturn

SpecAnalyze == Init /\ [][NextAnalyze]_vars

----------------------------------------------------------------------------
(* Properties *)

IsViolating(row) == ~FullyCompliant(row)

Last(s) == s[Len(s)]

ResolveCommits(r) == req[r].pc = "commit" /\ req'[r].pc = "done"

\* C1: a finished resolve_alert reports success = true exactly when its UPDATE
\* matched an alert with the given id, and success = false when no alert has
\* that id.
C1_SuccessIffFound ==
    \A r \in Resolvers :
        req[r].pc = "done" => (req[r].response.success <=> req[r].rowcount > 0)

\* C2: every dashboard_stats response has overall_compliance equal to the
\* percentage of the events counted in today_detections that carry helmet,
\* vest and gloves, between 0 and 100, and 0 when no event was counted.
\* Stated for the calls during which no writer committed, so that every query
\* of the call read the same store.
C2_OverallComplianceOfToday ==
    (dash.pc = "done" /\ Cardinality(dashSnaps) = 1) =>
        LET n == Cardinality(dash.matched)
            c == Cardinality({row \in dash.matched : FullyCompliant(row)})
        IN  /\ dash.response.today_detections = n
            /\ dash.response.overall_compliance = (IF n = 0 THEN 0 ELSE PctTenths(c, n))
            /\ dash.response.overall_compliance \in 0..1000

\* The number of names of the list that the mapping holds with value 1.
Present(d, names) == Cardinality({p \in SeqToSet(names) : p \in DOMAIN d /\ d[p] = 1})

\* C3: for every mapping of some of the six flags to 0 or 1 the verdict has
\* score = 70 * (required present / 3) + 30 * (optional present / 3) rounded to
\* one decimal, within [0, 100]; status Non-Compliant iff a required item is
\* missing, else Partially Compliant iff score < 80, else Compliant; and the
\* two lists hold exactly the missing items of each set, in the set's order.
C3_VerdictMatchesRule ==
    ana.pc = "done" =>
        LET d == ana.input
            v == ana.out
            reqMissing == {p \in SeqToSet(required_ppe) : ~(p \in DOMAIN d /\ d[p] = 1)}
            optMissing == {p \in SeqToSet(optional_ppe) : ~(p \in DOMAIN d /\ d[p] = 1)}
        IN  /\ v.compliance_score =
                 RoundHalfEven(700 * Present(d, required_ppe)
                               + 300 * Present(d, optional_ppe), 3)
            /\ v.compliance_score \in 0..1000
            /\ v.status = "Non-Compliant" <=> reqMissing # {}
            /\ v.status = "Partially Compliant" <=>
                   (reqMissing = {} /\ v.compliance_score < 800)
            /\ v.status = "Compliant" <=>
                   (reqMissing = {} /\ v.compliance_score >= 800)
            /\ SeqToSet(v.required_missing) = reqMissing
            /\ Len(v.required_missing) = Cardinality(reqMissing)
            /\ SeqToSet(v.optional_missing) = optMissing
            /\ Len(v.optional_missing) = Cardinality(optMissing)

\* C3 witness: a verdict for a mapping with absent keys and all required items
\* present, scored below 80.
C3_Witness ==
    /\ ana.pc = "done"
    /\ DOMAIN ana.input = SeqToSet(required_ppe)
    /\ \A p \in DOMAIN ana.input : ana.input[p] = 1
    /\ ana.out.status = "Partially Compliant"
    /\ ana.out.compliance_score = 700

C4_Example ==
    [helmet |-> 1, vest |-> 1, gloves |-> 0, goggles |-> 1, boots |-> 1, mask |-> 1]

\* C4 as stated: for helmet=1, vest=1, gloves=0, goggles=1, boots=1, mask=1 the
\* verdict is required_missing = [gloves], score 76.7, status Partially Compliant.
C4_ExamplePartiallyCompliant ==
    (ana.pc = "done" /\ ana.input = C4_Example) =>
        /\ ana.out.required_missing = <<"gloves">>
        /\ ana.out.compliance_score = 767
        /\ ana.out.status = "Partially Compliant"

\* C4 amended: for the same flags the verdict is required_missing = [gloves],
\* score 76.7, status Non-Compliant.
C4_ExampleNonCompliant ==
    (ana.pc = "done" /\ ana.input = C4_Example) =>
        /\ ana.out.required_missing = <<"gloves">>
        /\ ana.out.compliance_score = 767
        /\ ana.out.status = "Non-Compliant"

\* C4 witness: the analyzer has returned for the example flags.
C4_Witness == ana.pc = "done" /\ ana.input = C4_Example

\* C5: a step that ingests an event adds that one event; it adds no alert when
\* helmet, vest and gloves are all present, and otherwise exactly one alert,
\* for the event's worker and timestamp, unresolved, of severity High iff the
\* helmet is missing and Medium otherwise.
C5_IngestStep ==
    detections' # detections =>
        /\ Len(detections') = Len(detections) + 1
        /\ LET e == Last(detections')
           IN  IF e.helmet = 1 /\ e.vest = 1 /\ e.gloves = 1
               THEN alerts' = alerts
               ELSE /\ Len(alerts') = Len(alerts) + 1
                    /\ SubSeq(alerts', 1, Len(alerts)) = alerts
                    /\ Last(alerts').worker_id = e.worker_id
                    /\ Last(alerts').timestamp = e.timestamp
                    /\ Last(alerts').resolved = 0
                    /\ Last(alerts').severity = (IF e.helmet = 0 THEN "High" ELSE "Medium")

C5_AlertPerViolatingEvent == [][C5_IngestStep]_vars

\* C5 witness: the store holds an ingested event without helmet with its High
\* alert, and an ingested event with all required items and no alert.
C5_Witness ==
    /\ \E e \in Rows(detections) :
          /\ e.helmet = 0
          /\ \E a \in Rows(alerts) :
                a.timestamp = e.timestamp /\ a.severity = "High" /\ a.resolved = 0
    /\ \E e \in Rows(detections) :
          /\ FullyCompliant(e)
          /\ \A a \in Rows(alerts) : a.timestamp # e.timestamp

\* C8, one step: no stored row is dropped or rewritten except for an alert's
\* resolved flag, which changes only from 0 to 1 and only in the commit of a
\* resolve_alert for that alert's id; that commit changes nothing else.
C8_Step ==
    /\ Len(detections') >= Len(detections)
    /\ Len(alerts') >= Len(alerts)
    /\ \A i \in DOMAIN detections : detections'[i] = detections[i]
    /\ \A i \in DOMAIN alerts :
          /\ [alerts'[i] EXCEPT !.resolved = 0] = [alerts[i] EXCEPT !.resolved = 0]
          /\ alerts'[i].resolved # alerts[i].resolved =>
                /\ alerts[i].resolved = 0
                /\ alerts'[i].resolved = 1
                /\ \E r \in Resolvers :
                      ResolveCommits(r) /\ req[r].alert_id = alerts[i].id
    /\ \A r \in Resolvers :
          ResolveCommits(r) =>
              /\ detections' = detections
              /\ Len(alerts') = Len(alerts)
              /\ \A i \in DOMAIN alerts :
                    alerts[i].id # req[r].alert_id => alerts'[i] = alerts[i]

\* C8, outcome: every finished resolve_alert whose id matched an alert leaves
\* that alert resolved, whatever ran in between.
C8_Resolved ==
    \A r \in Resolvers :
        (req[r].pc = "done" /\ req[r].rowcount > 0) =>
            \A a \in Rows(alerts) : a.id = req[r].alert_id => a.resolved = 1

\* C8: the resolved flag only goes from false to true, only by resolve_alert,
\* which touches no other row; concurrent resolves of one id both end with the
\* alert resolved, and no generator insert is lost.
C8_ResolveMonotoneIsolated == [][C8_Step]_vars /\ []C8_Resolved

\* C8 witness: one resolve of an existing alert has finished, a second resolve
\* of the same id waits for the write lock, which a generator cycle holds.
C8_Witness ==
    /\ req["r1"].pc = "done" /\ req["r1"].rowcount = 1
    /\ req["r2"].pc = "update" /\ req["r2"].alert_id = req["r1"].alert_id
    /\ writer = "gen"
    /\ \E a \in Rows(alerts) : a.id = req["r1"].alert_id /\ a.resolved = 1

\* C9: in every committed store state the events lacking helmet, vest or
\* gloves and the alerts correspond one to one by worker and timestamp.
C9_EventsMatchAlerts ==
    /\ \A e \in Rows(detections) :
          IsViolating(e) =>
              Cardinality({a \in Rows(alerts) :
                  a.worker_id = e.worker_id /\ a.timestamp = e.timestamp}) = 1
    /\ \A a \in Rows(alerts) :
          Cardinality({e \in Rows(detections) :
              IsViolating(e) /\ e.worker_id = a.worker_id
                             /\ e.timestamp = a.timestamp}) = 1

\* C9 witness: a violating event is stored with its alert while the generator
\* holds a second violating event and its alert in an uncommitted transaction.
C9_Witness ==
    /\ \E e \in Rows(detections) : IsViolating(e)
    /\ alerts # << >>
    /\ gen.pc = "commit"
    /\ gen.tx.detections # << >>
    /\ gen.tx.alerts # << >>

\* C6: a finished compliance_trends response has 7 entries whose dates are
\* consecutive days in ascending order, none skipped or repeated, also when
\* midnight passes during the call; an entry without events has rate 0.
C6_SevenConsecutiveDays ==
    trend.pc = "done" =>
        /\ Len(trend.trends) = 7
        /\ \A k \in 1..6 : trend.trends[k + 1].date = trend.trends[k].date + 1
        /\ \A k \in 1..7 :
              trend.trends[k].total_detections = 0 =>
                  trend.trends[k].compliance_rate = 0

\* The values dashboard_stats computes from one committed store state.
StatsOf(s, today) ==
    DashResponse(NumWorkers, OnDate(s.detections, today),
                 ActiveAlerts(s.alerts), CompliantDetections(s.detections))

\* C7: every dashboard_stats response equals the values of one committed
\* store state among those that existed between its call and its return.
C7_SingleSnapshot ==
    dash.pc = "done" => \E s \in dashSnaps : dash.response = StatsOf(s, dash.today)

\* C10: the generator loop never terminates, whatever fails in a cycle.
C10_GeneratorSurvives == gen.pc # "terminated"

====
